---- MODULE Spec2Model ----
(***************************************************************************)
(* Complaint sub-protocol of the threshold-ECDSA IDKG                      *)
(* (rs/crypto/internal/crypto_lib/threshold_sig/tecdsa/src/complaints.rs). *)
(*                                                                         *)
(* generate_complaints, IDkgComplaintInternal::new, ::verify and           *)
(* ::create_proof_assoc_data are translated from complaints.rs.  The       *)
(* collaborators they call (curve arithmetic, the random oracle, the       *)
(* discrete-log-equivalence proof, MEGa decryption, commitment opening,    *)
(* seed derivation) live in other files of the crate; they are modelled    *)
(* from their contracts: groups are Z_n written additively, the random     *)
(* oracle and the proof are the ideal ones (a digest is the transcript     *)
(* it hashes, a proof verifies exactly for the statement it was made for). *)
(***************************************************************************)
EXTENDS Integers, Sequences, FiniteSets

\* ------------------------------------------------------------------ bounds
\* Order of the group standing for curve K256 / P256.
OrderK256 == 3
OrderP256 == 2
\* NodeIndex ranges over 0..MaxIndex.
MaxIndex == 1
\* Associated data ranges over 0..MaxAD.
MaxAD == 1
\* Dealers commit to the values 0..MaxSecret.
MaxSecret == 0

\* --------------------------------------------------------------- results
\* ThresholdEcdsaResult<T>
Ok(v) == <<"Ok", v>>
Err(e) == <<"Err", e>>
IsOk(r) == r[1] = "Ok"
IsErr(r) == r[1] = "Err"

\* ---------------------------------------------------- curve primitives
Curves == {"K256", "P256"}
Order(c) == IF c = "K256" THEN OrderK256 ELSE OrderP256

\* EccPoint / EccScalar: a curve tag and a value of Z_Order(curve).
Elem(c, v) == [curve |-> c, v |-> v]
EccPoints == UNION {{Elem(c, v) : v \in 0..(Order(c) - 1)} : c \in Curves}
EccScalars == EccPoints

\* EccPoint::generator_g(curve_type), and the second generator h.
generator_g(c) == Elem(c, 1)
generator_h(c) == Elem(c, 2 % Order(c))

\* EccPoint::scalar_mul: mismatched curve tags are an error.
scalar_mul(p, s) ==
    IF p.curve # s.curve THEN Err("CurveMismatch")
    ELSE Ok(Elem(p.curve, (p.v * s.v) % Order(p.curve)))

\* --------------------------------------------------------------- seeds
\* A Seed is the path of labels it was derived under, from the root.
RootSeed == <<"root">>
\* Seed::derive(label): label-keyed child seed.
derive(s, label) == Append(s, label)

\* format!("{}", n): the decimal digits of n.
RECURSIVE Decimal(_)
Decimal(n) == IF n < 10 THEN <<n>> ELSE Append(Decimal(n \div 10), n % 10)

\* -------------------------------------------------------- random oracle
\* ro::RandomOracle: the digest of an ideal oracle is its transcript.
ro_new(label) == <<label>>
ro_add(ro, name, value) == Append(ro, <<name, value>>)
ro_output(ro) == ro

\* ------------------------------------------ zk::ProofOfDLogEquivalence
\* create(seed, x, g, h, assoc_data): proves x relates (g, x*g) and (h, x*h).
\* The proof's bytes are a function of the statement and of the seed.
ProofCreate(s, x, g, h, ad) ==
    IF x.curve # g.curve \/ x.curve # h.curve THEN Err("CurveMismatch")
    ELSE Ok([g |-> g, h |-> h,
             g_x |-> scalar_mul(g, x)[2], h_x |-> scalar_mul(h, x)[2],
             assoc |-> ad, rand |-> s])

\* verify(g, h, g_x, h_x, assoc_data): fails closed on any mismatch.
ProofVerify(proof, g, h, g_x, h_x, ad) ==
    IF g.curve # h.curve \/ g.curve # g_x.curve \/ g.curve # h_x.curve
    THEN Err("CurveMismatch")
    ELSE IF proof.g = g /\ proof.h = h /\ proof.g_x = g_x /\ proof.h_x = h_x
            /\ proof.assoc = ad
         THEN Ok("verified")
         ELSE Err("InvalidProof")

\* ------------------------------------------------- MEGa ciphertexts
\* The pad hashed from the decryption context, for plaintext component j.
Pad(ad, dealer, recipient, pk, eph, shared, j) ==
    (ad + dealer + 2 * recipient + pk.v + eph.v + shared.v + j) % Order(eph.curve)

\* MEGaCiphertext{Single,Pairs}::decrypt_from_shared_secret: the plaintext
\* scalar(s) of the recipient.
decrypt_from_shared_secret(c, ad, dealer, recipient, pk, shared) ==
    LET eph == c.ephemeral_key
        n == Order(eph.curve)
        plain(j) == Elem(eph.curve,
                         (c.ctext[j] + n - Pad(ad, dealer, recipient, pk, eph, shared, j)) % n)
    IN  IF pk.curve # eph.curve \/ shared.curve # eph.curve
        THEN Err("CurveMismatch")
        ELSE Ok([j \in 1..Len(c.ctext) |-> plain(j)])

\* CommitmentOpening of a decrypted payload.
Opening(variant, plain) == [variant |-> variant, plain |-> plain]

\* PolynomialCommitment::check_opening(index, opening): Ok(TRUE) iff the
\* opening is the committed one.
check_opening(commitment, index, opening) ==
    LET c == commitment.point.curve
        n == Order(c)
    IN  IF commitment.variant # opening.variant THEN Err("UnexpectedCommitmentType")
        ELSE IF \E j \in 1..Len(opening.plain) : opening.plain[j].curve # c
        THEN Err("CurveMismatch")
        ELSE IF commitment.variant = "Simple"
        THEN Ok(generator_g(c).v * opening.plain[1].v % n = commitment.point.v)
        ELSE Ok((generator_g(c).v * opening.plain[1].v
                 + generator_h(c).v * opening.plain[2].v) % n = commitment.point.v)

\* The opening variant a ciphertext variant decrypts to.
OpeningVariant(ctVariant) == IF ctVariant = "Single" THEN "Simple" ELSE "Pedersen"

\* MEGaCiphertext::decrypt_and_check: decrypt with the receiver's key and
\* check the opening against the commitment.
decrypt_and_check(ciphertext, commitment, ad, dealer, receiver, sk, pk) ==
    LET shared == scalar_mul(ciphertext.ephemeral_key, sk)
        plain == decrypt_from_shared_secret(ciphertext, ad, dealer, receiver, pk, shared[2])
        opening == Opening(OpeningVariant(ciphertext.variant), plain[2])
        good == check_opening(commitment, receiver, opening)
    IN  IF IsErr(shared) THEN shared
        ELSE IF IsErr(plain) THEN plain
        ELSE IF IsErr(good) THEN good
        ELSE IF good[2] THEN Ok(opening)
        ELSE Err("InvalidCommitment")

\* ------------------------------------------------------------ dealings
NodeIndex == 0..MaxIndex
AssocData == 0..MaxAD

\* Ephemeral keys of published ciphertexts: any non-identity point.
EphemeralKeys == {p \in EccPoints : p.v # 0}

\* MEGaCiphertext: Single carries one scalar for the recipient, Pairs two.
Ciphertexts ==
    UNION {{[variant |-> "Single", ephemeral_key |-> e, ctext |-> <<a>>]
              : a \in 0..(Order(e.curve) - 1)}
           \cup
           {[variant |-> "Pairs", ephemeral_key |-> e, ctext |-> <<a, b>>]
              : a \in 0..(Order(e.curve) - 1), b \in 0..(Order(e.curve) - 1)}
           : e \in EphemeralKeys}

\* PolynomialCommitment: Simple commits to g*v, Pedersen to g*v + h*m.
Commitments ==
    {[variant |-> "Simple", point |-> Elem("K256", v % OrderK256)] : v \in 0..MaxSecret}
    \cup
    {[variant |-> "Pedersen",
      point |-> Elem("K256", (v + generator_h("K256").v * m) % OrderK256)]
       : v \in 0..MaxSecret, m \in 0..MaxSecret}

\* IDkgDealingInternal
Dealings == [ciphertext : Ciphertexts, commitment : Commitments]

\* --------------------------------------------------------- BTreeMap
\* An insert that puts the entry last, whatever its key.
BTreeInsertAppend(m, k, v) == Append(m, <<k, v>>)

\* A BTreeMap is the sequence of its <<key, value>> entries, ascending by key.
BTreeKeys(m) == {m[i][1] : i \in 1..Len(m)}
BTreeGet(m, k) == m[CHOOSE i \in 1..Len(m) : m[i][1] = k][2]
\* BTreeMap::insert: replaces the value of an existing key, keeps the order.
BTreeInsert(m, k, v) ==
    LET below == SelectSeq(m, LAMBDA e : e[1] < k)
        above == SelectSeq(m, LAMBDA e : e[1] > k)
    IN  below \o <<<<k, v>>>> \o above
Ascending(m) == \A i \in 1..Len(m), j \in 1..Len(m) : i < j => m[i][1] < m[j][1]

\* The BTreeMap holding value f[k] under each key k of the set K.
Smallest(S) == CHOOSE x \in S : \A y \in S : x <= y
RECURSIVE BTreeOf(_, _)
BTreeOf(K, f) ==
    IF K = {} THEN <<>>
    ELSE <<<<Smallest(K), f[Smallest(K)]>>>> \o BTreeOf(K \ {Smallest(K)}, f)

\* ------------------------------------------------------ complaints.rs
\* A label that leaves the dealer index out.
complaint_label_fixed(dealer_index) == <<"ic-crypto-tecdsa-complaint-against-">>

\* The label of the per-dealer child seed (lines 47-50).
complaint_label(dealer_index) ==
    <<"ic-crypto-tecdsa-complaint-against-">> \o Decimal(dealer_index)

\* A digest that leaves the receiver index out.
create_proof_assoc_data_no_receiver(ad, r_index, d_index, pk) ==
    LET ro0 == ro_new("ic-crypto-tecdsa-complaint-proof-assoc-data")
        ro1 == ro_add(ro0, "associated_data", ad)
        ro3 == ro_add(ro1, "dealer_index", d_index)
        ro4 == ro_add(ro3, "receiver_public_key", pk)
    IN  Ok(ro_output(ro4))

\* IDkgComplaintInternal::create_proof_assoc_data
create_proof_assoc_data(ad, r_index, d_index, pk) ==
    LET ro0 == ro_new("ic-crypto-tecdsa-complaint-proof-assoc-data")
        ro1 == ro_add(ro0, "associated_data", ad)
        ro2 == ro_add(ro1, "receiver_index", r_index)
        ro3 == ro_add(ro2, "dealer_index", d_index)
        ro4 == ro_add(ro3, "receiver_public_key", pk)
    IN  Ok(ro_output(ro4))

\* A creation whose digest takes the two indices in the other order.
new_swapped_indices(s, dealing, d_index, r_index, sk, pk, ad) ==
    LET shared == scalar_mul(dealing.ciphertext.ephemeral_key, sk)
        proof_assoc_data == create_proof_assoc_data(ad, d_index, r_index, pk)
        proof == ProofCreate(s, sk, generator_g(sk.curve),
                             dealing.ciphertext.ephemeral_key, proof_assoc_data[2])
    IN  IF IsErr(shared) THEN shared
        ELSE IF IsErr(proof) THEN proof
        ELSE Ok([shared_secret |-> shared[2], proof |-> proof[2]])

\* IDkgComplaintInternal::new
new(s, dealing, d_index, r_index, sk, pk, ad) ==
    LET shared == scalar_mul(dealing.ciphertext.ephemeral_key, sk)
        proof_assoc_data == create_proof_assoc_data(ad, r_index, d_index, pk)
        proof == ProofCreate(s, sk, generator_g(sk.curve),
                             dealing.ciphertext.ephemeral_key, proof_assoc_data[2])
    IN  IF IsErr(shared) THEN shared
        ELSE IF IsErr(proof_assoc_data) THEN proof_assoc_data
        ELSE IF IsErr(proof) THEN proof
        ELSE Ok([shared_secret |-> shared[2], proof |-> proof[2]])

\* A test that complains only about openings that contradict the commitment.
should_complain_mismatch_only(opening) ==
    IsErr(opening) /\ opening[2] = "InvalidCommitment"

\* opening.is_err() (line 46): whether the dealing gets a complaint.
should_complain(opening) == IsErr(opening)

\* A return that skips the emptiness test.
generate_result_unchecked(found) == Ok(found)

\* The child seed a complaint is created from (lines 47-50).
complaint_seed(root, dealer_index) == derive(root, complaint_label(dealer_index))

\* The return of generate_complaints once the loop is over (lines 66-72).
generate_result(found) ==
    IF Len(found) = 0 THEN Err("InvalidArguments") ELSE Ok(found)

\* A statement that takes the shared secret from the proof's own transcript.
proof_statement_unbound(self, dealing, complainer_key) ==
    [g |-> generator_g(self.shared_secret.curve),
     h |-> dealing.ciphertext.ephemeral_key,
     g_x |-> complainer_key,
     h_x |-> self.proof.h_x]

\* A match that sends every pair of variants on to decryption.
variants_match_any(ciphertext, commitment) == TRUE

\* An end of verify that accepts whenever check_opening returns.
verify_result_lenient(checked) ==
    IF IsErr(checked) THEN checked ELSE Ok("accepted")

\* The statement verify hands to proof.verify (lines 142-146): generator of
\* the shared secret's curve, the dealing's ephemeral key, the complainer's
\* public point, the complaint's shared secret.
proof_statement(self, dealing, complainer_key) ==
    [g |-> generator_g(self.shared_secret.curve),
     h |-> dealing.ciphertext.ephemeral_key,
     g_x |-> complainer_key,
     h_x |-> self.shared_secret]

\* The match of verify (lines 150-174): the pairs that go on to decryption.
variants_match(ciphertext, commitment) ==
    \/ ciphertext.variant = "Single" /\ commitment.variant = "Simple"
    \/ ciphertext.variant = "Pairs" /\ commitment.variant = "Pedersen"

\* The end of verify (lines 179-186), from the result of check_opening.
verify_result(checked) ==
    IF IsErr(checked) THEN checked
    ELSE IF checked[2] THEN Err("InvalidComplaint")
    ELSE Ok("accepted")

\* ------------------------------------------------------------- state
VARIABLES
    \* the arguments of generate_complaints
    verified_dealings, associated_data, receiver_index, secret_key, public_key, seed,
    \* per call of generate_complaints: the dealers not yet visited, the
    \* complaints map, the outcome, and the calls of new made so far
    pending, complaints, outcome, newcalls,
    \* the complaint handed to a verifier and where it came from
    wire, origin,
    \* one call of verify: its arguments, its position, the collaborators it
    \* has called so far, the decrypted opening, its outcome
    vargs, vpc, vcalls, vopening, voutcome

inputs == <<verified_dealings, associated_data, receiver_index, secret_key, public_key, seed>>
genvars == <<pending, complaints, outcome, newcalls>>
wirevars == <<wire, origin>>
verifyvars == <<vargs, vpc, vcalls, vopening, voutcome>>
vars == <<inputs, genvars, wirevars, verifyvars>>

\* The two calls of generate_complaints made on the same arguments.
Calls == {1, 2}
Running == <<"Running", "">>
IsRunning(r) == r[1] = "Running"

SecretKeys == {s \in EccScalars : s.curve = "K256" /\ s.v # 0}
PublicKeys == {p \in EccPoints : p.curve = "K256" /\ p.v # 0}

NoArgs ==
    [dealing |-> CHOOSE d \in Dealings : TRUE, dealer_index |-> 0,
     complainer_index |-> 0, complainer_key |-> generator_g("K256"),
     associated_data |-> 0]

InitWith(maxDealings) ==
    /\ \E K \in SUBSET NodeIndex :
          /\ Cardinality(K) <= maxDealings
          /\ \E f \in [K -> Dealings] : verified_dealings = BTreeOf(K, f)
    /\ associated_data \in AssocData
    /\ receiver_index \in NodeIndex
    /\ secret_key \in SecretKeys
    /\ public_key \in PublicKeys
    /\ seed = RootSeed
    /\ pending = [c \in Calls |-> BTreeKeys(verified_dealings)]
    /\ complaints = [c \in Calls |-> <<>>]
    /\ outcome = [c \in Calls |-> Running]
    /\ newcalls = [c \in Calls |-> <<>>]
    /\ wire = <<>>
    /\ origin = [dealer |-> 0, tampered |-> FALSE]
    /\ vargs = NoArgs
    /\ vpc = "idle"
    /\ vcalls = <<>>
    /\ vopening = Opening("Simple", <<>>)
    /\ voutcome = Running

\* ------------------------------------------------ generate_complaints
\* One iteration of the loop (lines 35-64) of call c, on dealer d.  The
\* first call visits the dealers as the BTreeMap iterates, ascending; the
\* second call, made after the first on the same arguments, visits them in
\* any order.
Iterate(c, d) ==
    /\ IsRunning(outcome[c])
    /\ d \in pending[c]
    /\ c = 1 => d = Smallest(pending[c])
    /\ c = 2 => ~IsRunning(outcome[1])
    /\ LET dealing == BTreeGet(verified_dealings, d)
           opening == decrypt_and_check(dealing.ciphertext, dealing.commitment,
                                        associated_data, d, receiver_index,
                                        secret_key, public_key)
           child == complaint_seed(seed, d)
           complaint == new(child, dealing, d, receiver_index, secret_key,
                            public_key, associated_data)
       IN  IF should_complain(opening)
           THEN /\ newcalls' = [newcalls EXCEPT ![c] = Append(@, [dealer |-> d, seed |-> child])]
                /\ IF IsErr(complaint)
                   THEN /\ outcome' = [outcome EXCEPT ![c] = complaint]
                        /\ UNCHANGED complaints
                   ELSE /\ complaints' = [complaints EXCEPT ![c] = BTreeInsert(@, d, complaint[2])]
                        /\ UNCHANGED outcome
           ELSE UNCHANGED <<newcalls, complaints, outcome>>
    /\ pending' = [pending EXCEPT ![c] = @ \ {d}]
    /\ UNCHANGED <<inputs, wirevars, verifyvars>>

\* The loop is over (lines 66-72).
Return(c) ==
    /\ IsRunning(outcome[c])
    /\ pending[c] = {}
    /\ outcome' = [outcome EXCEPT ![c] = generate_result(complaints[c])]
    /\ UNCHANGED <<inputs, pending, complaints, newcalls, wirevars, verifyvars>>

\* ------------------------------------------------- complaints in flight
\* The receiver publishes the complaint generate_complaints returned for
\* dealer d.
Broadcast(d) ==
    /\ wire = <<>>
    /\ IsOk(outcome[1])
    /\ d \in BTreeKeys(outcome[1][2])
    /\ wire' = <<BTreeGet(outcome[1][2], d)>>
    /\ origin' = [dealer |-> d, tampered |-> FALSE]
    /\ UNCHANGED <<inputs, genvars, verifyvars>>

\* The receiver calls IDkgComplaintInternal::new itself on the dealing of
\* dealer d, whether or not the dealing opens, and publishes the complaint.
Accuse(d) ==
    /\ wire = <<>>
    /\ ~IsRunning(outcome[1])
    /\ d \in BTreeKeys(verified_dealings)
    /\ LET made == new(seed, BTreeGet(verified_dealings, d), d, receiver_index,
                       secret_key, public_key, associated_data)
       IN  /\ IsOk(made)
           /\ wire' = <<made[2]>>
    /\ origin' = [dealer |-> d, tampered |-> FALSE]
    /\ UNCHANGED <<inputs, genvars, verifyvars>>

\* The shared_secret of the published complaint is replaced by another
\* point before the complaint reaches the verifier; the proof stays.
Tamper(p) ==
    /\ Len(wire) = 1
    /\ vpc = "idle"
    /\ ~origin.tampered
    /\ p # wire[1].shared_secret
    /\ wire' = <<[wire[1] EXCEPT !.shared_secret = p]>>
    /\ origin' = [origin EXCEPT !.tampered = TRUE]
    /\ UNCHANGED <<inputs, genvars, verifyvars>>

\* ------------------------------------------ IDkgComplaintInternal::verify
\* An entry of verify that goes on to the match whatever the proof check says.
VerifyProofUnchecked(dealing, d_index, c_index, c_key, ad) ==
    /\ Len(wire) = 1
    /\ vpc = "idle"
    /\ vargs' = [dealing |-> dealing, dealer_index |-> d_index,
                 complainer_index |-> c_index, complainer_key |-> c_key,
                 associated_data |-> ad]
    /\ vcalls' = Append(vcalls, "proof.verify")
    /\ vpc' = "dispatch"
    /\ UNCHANGED <<inputs, genvars, wirevars, vopening, voutcome>>

\* Entry of verify up to the proof check (lines 133-147).
VerifyProof(dealing, d_index, c_index, c_key, ad) ==
    /\ Len(wire) = 1
    /\ vpc = "idle"
    /\ vargs' = [dealing |-> dealing, dealer_index |-> d_index,
                 complainer_index |-> c_index, complainer_key |-> c_key,
                 associated_data |-> ad]
    /\ LET self == wire[1]
           proof_assoc_data == create_proof_assoc_data(ad, c_index, d_index, c_key)
           st == proof_statement(self, dealing, c_key)
           verified == ProofVerify(self.proof, st.g, st.h, st.g_x, st.h_x,
                                   proof_assoc_data[2])
       IN  /\ vcalls' = Append(vcalls, "proof.verify")
           /\ IF IsErr(proof_assoc_data)
              THEN vpc' = "done" /\ voutcome' = proof_assoc_data
              ELSE IF IsErr(verified)
              THEN vpc' = "done" /\ voutcome' = verified
              ELSE vpc' = "dispatch" /\ UNCHANGED voutcome
    /\ UNCHANGED <<inputs, genvars, wirevars, vopening>>

\* The match on the variants and the decryption (lines 150-174).
VerifyDecrypt ==
    /\ vpc = "dispatch"
    /\ LET self == wire[1]
           dealing == vargs.dealing
           plain == decrypt_from_shared_secret(
                        dealing.ciphertext, vargs.associated_data, vargs.dealer_index,
                        vargs.complainer_index, vargs.complainer_key, self.shared_secret)
       IN  IF variants_match(dealing.ciphertext, dealing.commitment)
           THEN /\ vcalls' = Append(vcalls, "decrypt_from_shared_secret")
                /\ IF IsErr(plain)
                   THEN vpc' = "done" /\ voutcome' = plain /\ UNCHANGED vopening
                   ELSE /\ vpc' = "check"
                        /\ vopening' = Opening(OpeningVariant(dealing.ciphertext.variant),
                                               plain[2])
                        /\ UNCHANGED voutcome
           ELSE /\ vpc' = "done"
                /\ voutcome' = Err("UnexpectedCommitmentType")
                /\ UNCHANGED <<vcalls, vopening>>
    /\ UNCHANGED <<inputs, genvars, wirevars, vargs>>

\* The opening must not match the commitment (lines 176-186).
VerifyCheck ==
    /\ vpc = "check"
    /\ vcalls' = Append(vcalls, "check_opening")
    /\ vpc' = "done"
    /\ voutcome' = verify_result(check_opening(vargs.dealing.commitment,
                                               vargs.complainer_index, vopening))
    /\ UNCHANGED <<inputs, genvars, wirevars, vargs, vopening>>

\* --------------------------------------------------------- specifications
BTreeValues(m) == {m[i][2] : i \in 1..Len(m)}

Generate ==
    \/ \E d \in NodeIndex : Iterate(1, d)
    \/ Return(1)

\* Two calls of generate_complaints on the same arguments.
Next ==
    \/ Generate
    \/ \E d \in NodeIndex : Iterate(2, d)
    \/ Return(2)

Spec == InitWith(MaxIndex + 1) /\ [][Next]_vars

\* One call of generate_complaints on at most one dealing, a complaint
\* published from it, and one call of verify on that complaint.
NextVerify ==
    \/ Generate
    \/ \E d \in NodeIndex : Broadcast(d)
    \/ \E d \in NodeIndex : Accuse(d)
    \/ \E p \in EccPoints : Tamper(p)
    \/ \E dealing \in BTreeValues(verified_dealings), d \in NodeIndex, c \in NodeIndex,
          k \in PublicKeys, ad \in AssocData : VerifyProof(dealing, d, c, k, ad)
    \/ VerifyDecrypt
    \/ VerifyCheck

SpecVerify == InitWith(1) /\ [][NextVerify]_vars

\* ------------------------------------------------------------- claims
Called(name) == \E i \in 1..Len(vcalls) : vcalls[i] = name

\* The digest of the call of verify in progress, written out field by field.
VerifyDigest ==
    <<"ic-crypto-tecdsa-complaint-proof-assoc-data",
      <<"associated_data", vargs.associated_data>>,
      <<"receiver_index", vargs.complainer_index>>,
      <<"dealer_index", vargs.dealer_index>>,
      <<"receiver_public_key", vargs.complainer_key>>>>

\* The result of the proof check of the call of verify in progress, against
\* (generator, dealing ephemeral key, complainer key, self.shared_secret, digest).
ProofChecked ==
    ProofVerify(wire[1].proof, generator_g(wire[1].shared_secret.curve),
                vargs.dealing.ciphertext.ephemeral_key, vargs.complainer_key,
                wire[1].shared_secret, VerifyDigest)

\* The variants of the dealing under verification.
VariantsOf(dealing) == <<dealing.ciphertext.variant, dealing.commitment.variant>>
Matching(dealing) == VariantsOf(dealing) \in {<<"Single", "Simple">>, <<"Pairs", "Pedersen">>}

\* What decryption from the complaint's shared secret gives in the call of
\* verify in progress, and what check_opening says of it.
VerifyPlain ==
    decrypt_from_shared_secret(vargs.dealing.ciphertext, vargs.associated_data,
                               vargs.dealer_index, vargs.complainer_index,
                               vargs.complainer_key, wire[1].shared_secret)
VerifyChecked ==
    check_opening(vargs.dealing.commitment, vargs.complainer_index,
                  Opening(OpeningVariant(vargs.dealing.ciphertext.variant), VerifyPlain[2]))

\* C1: in verify, the match on the variants, decrypt_from_shared_secret and
\* check_opening are reached only after the proof has verified against
\* (generator, ephemeral key, complainer key, self.shared_secret, digest);
\* when the proof check fails, verify returns that failure at once and calls
\* neither decrypt_from_shared_secret nor check_opening.
C1_ProofBeforeDecrypt ==
    /\ (vpc \in {"dispatch", "check"} \/ Called("decrypt_from_shared_secret")
          \/ Called("check_opening"))
        => /\ vcalls[1] = "proof.verify"
           /\ IsOk(ProofChecked)
    /\ (vpc # "idle" /\ IsErr(ProofChecked))
        => /\ vpc = "done"
           /\ voutcome = ProofChecked
           /\ vcalls = <<"proof.verify">>
C1_Witness ==
    /\ vpc = "done"
    /\ vcalls = <<"proof.verify", "decrypt_from_shared_secret", "check_opening">>

\* The dealers of verified_dealings whose decrypt_and_check returns an error.
FailingDealers ==
    {d \in BTreeKeys(verified_dealings) :
        LET dealing == BTreeGet(verified_dealings, d)
        IN  IsErr(decrypt_and_check(dealing.ciphertext, dealing.commitment,
                                    associated_data, d, receiver_index,
                                    secret_key, public_key))}

\* C2: whenever generate_complaints returns Ok(map), the keys of map are
\* exactly the dealers whose decrypt_and_check returned an error.
C2_ComplaintsAreTheFailures ==
    \A c \in Calls :
        IsOk(outcome[c]) => BTreeKeys(outcome[c][2]) = FailingDealers
C2_Witness ==
    /\ IsOk(outcome[1])
    /\ Len(verified_dealings) = 2
    /\ Len(outcome[1][2]) = 1

\* C3: generate_complaints on dealings that all open returns InvalidArguments;
\* every Ok result holds at least one complaint.
C3_NoEmptyOk ==
    \A c \in Calls :
        /\ IsOk(outcome[c]) => Len(outcome[c][2]) >= 1
        /\ (~IsRunning(outcome[c]) /\ FailingDealers = {})
            => (IsErr(outcome[c]) /\ outcome[c][2] = "InvalidArguments")
C3_Witness ==
    /\ Len(verified_dealings) >= 1
    /\ FailingDealers = {}
    /\ IsErr(outcome[1])
    /\ outcome[1][2] = "InvalidArguments"

\* C4: for matching variants, a complaint whose proof verifies and whose
\* opening satisfies the commitment is rejected with InvalidComplaint;
\* verify returns Ok only when the proof verifies, decryption succeeds and
\* check_opening returns false.
C4_DishonestComplaintRejected ==
    vpc = "done" =>
        /\ (/\ IsOk(ProofChecked)
            /\ Matching(vargs.dealing)
            /\ IsOk(VerifyPlain)
            /\ IsOk(VerifyChecked)
            /\ VerifyChecked[2])
            => (IsErr(voutcome) /\ voutcome[2] = "InvalidComplaint")
        /\ IsOk(voutcome)
            => /\ IsOk(ProofChecked)
               /\ Matching(vargs.dealing)
               /\ IsOk(VerifyPlain)
               /\ IsOk(VerifyChecked)
               /\ ~VerifyChecked[2]
C4_Witness ==
    /\ vpc = "done"
    /\ IsErr(voutcome)
    /\ voutcome[2] = "InvalidComplaint"

\* The dealing under verification pairs Single with Pedersen or Pairs with Simple.
Mismatched(dealing) ==
    VariantsOf(dealing) \in {<<"Single", "Pedersen">>, <<"Pairs", "Simple">>}

\* C5 (as stated): verifying against a dealing with mismatched variants fails
\* with UnexpectedCommitmentType for every dealer index and complainer index.
C5_AlwaysUnexpectedCommitmentType ==
    (vpc = "done" /\ Mismatched(vargs.dealing))
        => (IsErr(voutcome) /\ voutcome[2] = "UnexpectedCommitmentType")

\* C5 (amended): verifying against a dealing with mismatched variants fails
\* for every dealer index and complainer index without attempting
\* decrypt_from_shared_secret: with UnexpectedCommitmentType when the proof
\* verifies for the arguments given, with the proof's failure otherwise.
C5_MismatchRejectedAfterProof ==
    (vpc # "idle" /\ Mismatched(vargs.dealing))
        => /\ ~Called("decrypt_from_shared_secret")
           /\ vpc \in {"dispatch", "done"}
           /\ vpc = "done"
               => /\ IsErr(voutcome)
                  /\ IsOk(ProofChecked) => voutcome[2] = "UnexpectedCommitmentType"
                  /\ IsErr(ProofChecked) => voutcome = ProofChecked
C5_Witness ==
    /\ vpc = "done"
    /\ Mismatched(vargs.dealing)
    /\ IsErr(voutcome)
    /\ voutcome[2] = "UnexpectedCommitmentType"

\* The digest new built for the complaint on the wire, field by field.
CreationDigest ==
    <<"ic-crypto-tecdsa-complaint-proof-assoc-data",
      <<"associated_data", associated_data>>,
      <<"receiver_index", receiver_index>>,
      <<"dealer_index", origin.dealer>>,
      <<"receiver_public_key", public_key>>>>

\* C6: a complaint created with associated data A and receiver index r fails
\* verification with a complainer index other than r or associated data
\* other than A; the digests of creation and verification are equal exactly
\* when the four fields are equal.
C6_BoundToIndexAndData ==
    (Len(wire) = 1 /\ vpc # "idle") =>
        /\ (vargs.complainer_index # receiver_index
              \/ vargs.associated_data # associated_data)
            => /\ vpc = "done"
               /\ IsErr(voutcome)
               /\ vcalls = <<"proof.verify">>
        /\ wire[1].proof.assoc = CreationDigest
        /\ (VerifyDigest = wire[1].proof.assoc)
            <=> /\ vargs.associated_data = associated_data
                /\ vargs.complainer_index = receiver_index
                /\ vargs.dealer_index = origin.dealer
                /\ vargs.complainer_key = public_key
        /\ (~origin.tampered /\ IsOk(ProofChecked)) => VerifyDigest = CreationDigest
C6_Witness ==
    /\ vpc = "done"
    /\ ~origin.tampered
    /\ vargs.complainer_index # receiver_index
    /\ vargs.associated_data = associated_data
    /\ vargs.dealer_index = origin.dealer
    /\ vargs.complainer_key = public_key
    /\ vargs.dealing = BTreeGet(verified_dealings, origin.dealer)
    /\ public_key = scalar_mul(generator_g("K256"), secret_key)[2]
    /\ IsErr(voutcome)
    /\ voutcome[2] = "InvalidProof"

\* The arguments of verify are those the complaint on the wire was created with.
SameArguments ==
    /\ origin.dealer \in BTreeKeys(verified_dealings)
    /\ vargs.dealing = BTreeGet(verified_dealings, origin.dealer)
    /\ vargs.dealer_index = origin.dealer
    /\ vargs.complainer_index = receiver_index
    /\ vargs.complainer_key = public_key
    /\ vargs.associated_data = associated_data

\* C7: a complaint whose shared_secret was changed while its proof was left
\* alone is rejected at the proof check, before any decryption.
C7_TamperedSecretRejected ==
    (origin.tampered /\ vpc # "idle") =>
        /\ vpc = "done"
        /\ IsErr(voutcome)
        /\ voutcome = ProofChecked
        /\ vcalls = <<"proof.verify">>
C7_Witness ==
    /\ origin.tampered
    /\ vpc = "done"
    /\ SameArguments
    /\ public_key = scalar_mul(generator_g("K256"), secret_key)[2]
    /\ wire[1].shared_secret.curve = "K256"

\* C8: two calls of generate_complaints on the same arguments return the
\* same outcome, the same error or the same complaints under the same dealer
\* indices in ascending order, in whatever order the dealers are visited.
C8_Deterministic ==
    (~IsRunning(outcome[1]) /\ ~IsRunning(outcome[2])) =>
        /\ outcome[1][1] = outcome[2][1]
        /\ outcome[1][2] = outcome[2][2]
        /\ IsOk(outcome[2]) => Ascending(outcome[2][2])
C8_Witness ==
    /\ IsOk(outcome[1])
    /\ IsOk(outcome[2])
    /\ Len(outcome[2][2]) = 2
    /\ Len(newcalls[2]) = 2
    /\ newcalls[2][1].dealer > newcalls[2][2].dealer

\* The child seed expected for a dealer whose index has one decimal digit.
ExpectedSeed(d) ==
    Append(seed, <<"ic-crypto-tecdsa-complaint-against-", d>>)

\* C9: within a call of generate_complaints every complaint is created from
\* the child seed derived under "ic-crypto-tecdsa-complaint-against-<dealer>";
\* two dealers never share a seed, and the root seed is never passed on.
C9_FreshSeedPerDealer ==
    \A c \in Calls :
        /\ \A i \in 1..Len(newcalls[c]) :
              /\ newcalls[c][i].seed = ExpectedSeed(newcalls[c][i].dealer)
              /\ newcalls[c][i].seed # seed
        /\ \A i \in 1..Len(newcalls[c]), j \in 1..Len(newcalls[c]) :
              i # j => newcalls[c][i].seed # newcalls[c][j].seed
        /\ \A i \in 1..Len(complaints[c]) :
              complaints[c][i][2].proof.rand = ExpectedSeed(complaints[c][i][1])
C9_Witness ==
    /\ Len(newcalls[1]) = 2
    /\ Len(complaints[1]) = 2

\* The complaint on the wire is the one generate_complaints returned for its
\* dealer, and verify is called with the arguments it was created with.
HonestVerification ==
    /\ Len(wire) = 1
    /\ ~origin.tampered
    /\ IsOk(outcome[1])
    /\ origin.dealer \in BTreeKeys(outcome[1][2])
    /\ wire[1] = BTreeGet(outcome[1][2], origin.dealer)
    /\ SameArguments

\* C10: for matching variants, public_key = secret_key * generator and a
\* decrypted opening that does not satisfy the commitment, the complaint
\* generate_complaints returns is accepted by verify called with the same
\* dealing, dealer index, receiver index, public key and associated data.
C10_Complete ==
    (/\ vpc # "idle"
     /\ HonestVerification
     /\ Matching(vargs.dealing)
     /\ public_key = scalar_mul(generator_g("K256"), secret_key)[2]
     /\ IsOk(VerifyPlain)
     /\ IsOk(VerifyChecked)
     /\ ~VerifyChecked[2])
        => (vpc = "done" => IsOk(voutcome))
C10_Witness ==
    /\ vpc = "done"
    /\ HonestVerification
    /\ IsOk(voutcome)

====
